---- MODULE Spec2Model ----
(***************************************************************************)
(* Bitwise five-card poker hand evaluator (bitwiseEvaluator.ts).           *)
(*                                                                         *)
(* The evaluator is a library of functions.  A state of the model is one   *)
(* call of an exported operation: the operation, its arguments as the      *)
(* caller holds them, and, once the call has returned, its result.         *)
(*                                                                         *)
(* Numbers.  btRanks is an int32 below 2^15 and is modelled as an integer. *)
(* The multiplicity accumulator is a double holding an integer of up to 60 *)
(* bits; it is modelled by its sixteen base-16 digits (nibbles), digit r   *)
(* being floor(value / 16^r) mod 16, with additions carried from digit to  *)
(* digit.  For ranks 2..14 the set bits span at most bits 8..59, i.e. 52   *)
(* bits, so every value is exact in a double (ExactInDouble below).        *)
(*                                                                         *)
(* The console.log calls of the source write to the console only and are   *)
(* left out.                                                               *)
(***************************************************************************)
EXTENDS Integers, Sequences, FiniteSets, TLC

VARIABLES op, ranks, suits, handA, handB, pc, out

vars == <<op, ranks, suits, handA, handB, pc, out>>

(***************************************************************************)
(* Tables and constants of the source.                                     *)
(***************************************************************************)
HandRank ==
  [highCard |-> 0, pair |-> 1, twoPair |-> 2, trips |-> 3, straight |-> 4,
   flush |-> 5, fullHouse |-> 6, quads |-> 7, straightFlush |-> 8,
   royalFlush |-> 9]

Rank ==
  "A" :> 14 @@ "K" :> 13 @@ "Q" :> 12 @@ "J" :> 11 @@ "T" :> 10 @@ "9" :> 9
  @@ "8" :> 8 @@ "7" :> 7 @@ "6" :> 6 @@ "5" :> 5 @@ "4" :> 4 @@ "3" :> 3
  @@ "2" :> 2

Suit == "s" :> 1 @@ "c" :> 2 @@ "h" :> 4 @@ "d" :> 8

\* 0100 0000 0011 1100
WHEEL_HASH == 16444

\* 0111 1100 0000 0000
BROADWAY_HASH == 31744

POKER_HASH ==
  [RF |-> <<"Royal Flush", HandRank.royalFlush>>,
   SF |-> <<"Straight Flush", HandRank.straightFlush>>,
   F |-> <<"Flush", HandRank.flush>>,
   S |-> <<"Straight", HandRank.straight>>,
   HC |-> <<"High Card", HandRank.highCard>>]

\* Variant of PokerHashByCount: the keys 9 and 7 exchanged.
PokerHashByCountSwapped(btCount) ==
  CASE btCount = 1 -> <<"Four of a Kind", HandRank.quads>>
    [] btCount = 10 -> <<"Full House", HandRank.fullHouse>>
    [] btCount = 7 -> <<"Three of a Kind", HandRank.trips>>
    [] btCount = 9 -> <<"Two Pair", HandRank.twoPair>>
    [] btCount = 6 -> <<"Pair", HandRank.pair>>

\* The numeric keys of POKER_HASH (1, 10, 9, 7, 6).
PokerHashByCount(btCount) ==
  CASE btCount = 1 -> <<"Four of a Kind", HandRank.quads>>
    [] btCount = 10 -> <<"Full House", HandRank.fullHouse>>
    [] btCount = 9 -> <<"Three of a Kind", HandRank.trips>>
    [] btCount = 7 -> <<"Two Pair", HandRank.twoPair>>
    [] btCount = 6 -> <<"Pair", HandRank.pair>>

PAIR_TYPES == <<"kickers", "pairs", "trips", "quads">>

(***************************************************************************)
(* Integer bit operations on non-negative int32 values.                    *)
(***************************************************************************)
Pow2(n) == 2^n

RECURSIVE BitOr(_, _)
BitOr(x, y) ==
  IF x = 0 THEN y
  ELSE IF y = 0 THEN x
  ELSE 2 * BitOr(x \div 2, y \div 2)
       + (IF x % 2 = 1 \/ y % 2 = 1 THEN 1 ELSE 0)

\* x | (1 << r): bit r of x set.
SetBit(x, r) == IF (x \div Pow2(r)) % 2 = 1 THEN x ELSE x + Pow2(r)

\* x & -x for x > 0: the lowest set bit of x.
RECURSIVE LowestSetBit(_)
LowestSetBit(x) == IF x % 2 = 1 THEN 1 ELSE 2 * LowestSetBit(x \div 2)

(***************************************************************************)
(* The accumulator as sixteen nibbles.                                     *)
(***************************************************************************)
Nibbles == 0..15

ZeroValue == [r \in Nibbles |-> 0]

\* Variant of NibbleAt: the mask 3 in place of 15.
NibbleAtTwoBits(value, r) == value[r] % 4

\* (value / offset) & 15 with offset = 16^r.
NibbleAt(value, r) == value[r]

\* value + k * 16^r, carried upwards; a carry out of nibble 15 is dropped
\* (it cannot happen for k <= 16 below nibble 15).
RECURSIVE AddAt(_, _, _)
AddAt(value, r, k) ==
  IF k = 0 \/ r > 15 THEN value
  ELSE LET s == value[r] + k
       IN AddAt([value EXCEPT ![r] = s % 16], r + 1, s \div 16)

\* An integer 0 <= n < 16^4 as an accumulator value.
ToValue(n) ==
  [r \in Nibbles |-> IF r < 4 THEN (n \div (Pow2(4 * r))) % 16 ELSE 0]

\* value % 15, by Horner's rule on the nibbles.
RECURSIVE Mod15From(_, _, _)
Mod15From(value, r, acc) ==
  IF r < 0 THEN acc ELSE Mod15From(value, r - 1, (acc * 16 + value[r]) % 15)

Mod15(value) == Mod15From(value, 15, 0)

\* Number of bits from the highest to the lowest set bit of the value.
SetBits(value) ==
  {i \in 0..63 : (value[i \div 4] \div Pow2(i % 4)) % 2 = 1}

Max(S) == CHOOSE x \in S : \A y \in S : y <= x

Min(S) == CHOOSE x \in S : \A y \in S : x <= y

SignificantBits(value) ==
  IF SetBits(value) = {} THEN 0 ELSE Max(SetBits(value)) - Min(SetBits(value)) + 1

(***************************************************************************)
(* parseHandFromString.  A hand notation is a sequence of cards, each card *)
(* a pair <<rank character, suit character>> (the string already trimmed   *)
(* and split at the spaces, the suit character in lower case).             *)
(***************************************************************************)
ParseHandFromString(handNotation) ==
  <<[i \in 1..Len(handNotation) |-> Rank[handNotation[i][1]]],
    [i \in 1..Len(handNotation) |-> Suit[handNotation[i][2]]]>>

(***************************************************************************)
(* countRanksBitwise: one bit per rank present.                            *)
(***************************************************************************)
RECURSIVE CountRanksLoop(_, _, _)
CountRanksLoop(handRanks, card, bitValue) ==
  IF card < 5
  THEN CountRanksLoop(handRanks, card + 1,
                      SetBit(bitValue, handRanks[card + 1]))
  ELSE bitValue

\* Variant of countRanksBitwise: the loop starts at card 1.
countRanksBitwiseSkipFirst(handRanks) == CountRanksLoop(handRanks, 1, 0)

countRanksBitwise(handRanks) == CountRanksLoop(handRanks, 0, 0)

(***************************************************************************)
(* countDuplicatesBitwise.  The pass with i = -1 has offset 0 and adds 0.  *)
(* The pass for card i reads the nibble of the card's rank and adds        *)
(* offset * (nibble + 1).                                                  *)
(***************************************************************************)
\* Variant of DuplicatesStep: adds the offset once for every card.
DuplicatesStepAddOne(value, rank) == AddAt(value, rank, 1)

DuplicatesStep(value, rank) == AddAt(value, rank, NibbleAt(value, rank) + 1)

RECURSIVE CountDuplicatesLoop(_, _, _)
CountDuplicatesLoop(handRanks, i, value) ==
  IF i < Len(handRanks)
  THEN CountDuplicatesLoop(handRanks, i + 1,
                           DuplicatesStep(value, handRanks[i + 1]))
  ELSE value

countDuplicatesBitwise(handRanks) == CountDuplicatesLoop(handRanks, 0, ZeroValue)

(***************************************************************************)
(* rankPokerHand.                                                          *)
(***************************************************************************)
HandAnalysis(entry, btRanks, btCount) ==
  [handRank |-> entry[2], english |-> entry[1],
   btRanks |-> btRanks, btCount |-> btCount]

IsStraight(btRanks) ==
  LET low == LowestSetBit(btRanks)
  IN \/ btRanks % low = 0 /\ btRanks \div low = 31
     \/ btRanks = WHEEL_HASH

\* Variant of IsFlush: the last card is left out.
IsFlushFourCards(handSuits) ==
  handSuits[1] = BitOr(BitOr(handSuits[2], handSuits[3]), handSuits[4])

IsFlush(handSuits) ==
  handSuits[1] =
    BitOr(BitOr(BitOr(handSuits[2], handSuits[3]), handSuits[4]), handSuits[5])

rankPokerHand(handRanks, handSuits) ==
  LET btRanks == countRanksBitwise(handRanks)
      btCount == Mod15(countDuplicatesBitwise(handRanks))
      isStraight == IsStraight(btRanks)
      isFlush == IsFlush(handSuits)
  IN IF btCount # 5 THEN HandAnalysis(PokerHashByCount(btCount), btRanks, btCount)
     ELSE IF isFlush /\ btRanks = BROADWAY_HASH
       THEN HandAnalysis(POKER_HASH.RF, btRanks, btCount)
     ELSE IF isStraight /\ isFlush
       THEN HandAnalysis(POKER_HASH.SF, btRanks, btCount)
     ELSE IF isFlush THEN HandAnalysis(POKER_HASH.F, btRanks, btCount)
     ELSE IF isStraight THEN HandAnalysis(POKER_HASH.S, btRanks, btCount)
     ELSE HandAnalysis(POKER_HASH.HC, btRanks, btCount)

(***************************************************************************)
(* displayFloatAs64Bit: the 64 binary digits of the value, most            *)
(* significant first, in groups of four separated by single spaces         *)
(* (79 characters).  Group g (characters 5g .. 5g+3) shows nibble 15 - g.  *)
(***************************************************************************)
BitChar(bit) == IF bit = 1 THEN "1" ELSE "0"

NibbleChars(nibble) ==
  <<BitChar(nibble \div 8), BitChar((nibble \div 4) % 2),
    BitChar((nibble \div 2) % 2), BitChar(nibble % 2)>>

RECURSIVE GroupsFrom(_, _)
GroupsFrom(value, g) ==
  IF g = 15 THEN NibbleChars(value[0])
  ELSE NibbleChars(value[15 - g]) \o <<" ">> \o GroupsFrom(value, g + 1)

displayFloatAs64Bit(value) == GroupsFrom(value, 0)

\* String.prototype.charAt: the empty string beyond the end.
CharAt(stringRep, position) ==
  IF position < Len(stringRep) THEN stringRep[position + 1] ELSE ""

(***************************************************************************)
(* The five extractors.  Each scans the string from position 5 in steps of *)
(* 5 and names the rank of the group at `position' as 14 - position / 5.   *)
(***************************************************************************)
RECURSIVE AnalyzeQuadsLoop(_, _, _, _)
AnalyzeQuadsLoop(stringRep, quads, kicker, position) ==
  IF (quads = 0 \/ kicker = 0) /\ position < Len(stringRep)
  THEN LET p == position + 5
       IN IF CharAt(stringRep, p) = "1"
          THEN AnalyzeQuadsLoop(stringRep, 14 - p \div 5, kicker, p)
          ELSE IF CharAt(stringRep, p + 3) = "1"
          THEN AnalyzeQuadsLoop(stringRep, quads, 14 - p \div 5, p)
          ELSE AnalyzeQuadsLoop(stringRep, quads, kicker, p)
  ELSE <<quads, kicker>>

analyzeQuads(btCount) == AnalyzeQuadsLoop(displayFloatAs64Bit(btCount), 0, 0, 0)

RECURSIVE AnalyzeBoatLoop(_, _, _, _)
AnalyzeBoatLoop(stringRep, trips, pair, position) ==
  IF (trips = 0 \/ pair = 0) /\ position < Len(stringRep)
  THEN LET p == position + 5
       IN IF CharAt(stringRep, p + 1) = "1"
          THEN AnalyzeBoatLoop(stringRep, 14 - p \div 5, pair, p)
          ELSE IF CharAt(stringRep, p + 2) = "1"
          THEN AnalyzeBoatLoop(stringRep, trips, 14 - p \div 5, p)
          ELSE AnalyzeBoatLoop(stringRep, trips, pair, p)
  ELSE <<trips, pair>>

analyzeBoat(btCount) == AnalyzeBoatLoop(displayFloatAs64Bit(btCount), 0, 0, 0)

RECURSIVE AnalyzeTripsLoop(_, _, _, _)
AnalyzeTripsLoop(stringRep, trips, kickers, position) ==
  IF (trips = 0 \/ Len(kickers) < 2) /\ position < Len(stringRep)
  THEN LET p == position + 5
       IN IF CharAt(stringRep, p + 1) = "1"
          THEN AnalyzeTripsLoop(stringRep, 14 - p \div 5, kickers, p)
          ELSE IF CharAt(stringRep, p + 3) = "1"
          THEN AnalyzeTripsLoop(stringRep, trips, Append(kickers, 14 - p \div 5), p)
          ELSE AnalyzeTripsLoop(stringRep, trips, kickers, p)
  ELSE <<trips>> \o kickers

analyzeTrips(btCount) == AnalyzeTripsLoop(displayFloatAs64Bit(btCount), 0, <<>>, 0)

RECURSIVE AnalyzeTwoPairLoop(_, _, _, _)
AnalyzeTwoPairLoop(stringRep, pairs, kicker, position) ==
  IF Len(pairs) < 2 /\ kicker = 0 /\ position < Len(stringRep)
  THEN LET p == position + 5
       IN IF CharAt(stringRep, p + 2) = "1"
          THEN AnalyzeTwoPairLoop(stringRep, Append(pairs, 14 - p \div 5), kicker, p)
          ELSE IF CharAt(stringRep, p + 3) = "1"
          THEN AnalyzeTwoPairLoop(stringRep, pairs, 14 - p \div 5, p)
          ELSE AnalyzeTwoPairLoop(stringRep, pairs, kicker, p)
  ELSE pairs \o <<kicker>>

analyzeTwoPair(btCount) ==
  AnalyzeTwoPairLoop(displayFloatAs64Bit(btCount), <<>>, 0, 0)

RECURSIVE AnalyzePairLoop(_, _, _, _)
AnalyzePairLoop(stringRep, pair, kickers, position) ==
  IF (pair = 0 \/ Len(kickers) < 3) /\ position < Len(stringRep)
  THEN LET p == position + 5
       IN IF CharAt(stringRep, p + 2) = "1"
          THEN AnalyzePairLoop(stringRep, 14 - p \div 5, kickers, p)
          ELSE IF CharAt(stringRep, p + 3) = "1"
          THEN AnalyzePairLoop(stringRep, pair, Append(kickers, 14 - p \div 5), p)
          ELSE AnalyzePairLoop(stringRep, pair, kickers, p)
  ELSE <<pair>> \o kickers

analyzePair(btCount) == AnalyzePairLoop(displayFloatAs64Bit(btCount), 0, <<>>, 0)

(***************************************************************************)
(* analysisToInt: the extractor of the category, then the fold             *)
(* count += analysis[factor] * 16 * (l - factor).                          *)
(***************************************************************************)
Analyze(handRank, bitCount) ==
  CASE handRank = HandRank.quads -> analyzeQuads(bitCount)
    [] handRank = HandRank.fullHouse -> analyzeBoat(bitCount)
    [] handRank = HandRank.trips -> analyzeTrips(bitCount)
    [] handRank = HandRank.twoPair -> analyzeTwoPair(bitCount)
    [] handRank = HandRank.pair -> analyzePair(bitCount)

RECURSIVE FoldLoop(_, _, _)
FoldLoop(analysis, factor, count) ==
  IF factor < Len(analysis)
  THEN FoldLoop(analysis, factor + 1,
                count + analysis[factor + 1] * 16 * (Len(analysis) - factor))
  ELSE count

Fold(analysis) == FoldLoop(analysis, 0, 0)

\* The list of the extractor together with the folded count.
AnalysisTrace(handRank, bitCount) ==
  LET analysis == Analyze(handRank, bitCount)
  IN [analysis |-> analysis, count |-> Fold(analysis)]

analysisToInt(handRank, bitCount) == AnalysisTrace(handRank, bitCount).count

(***************************************************************************)
(* compareHands.  analysisToInt is handed the btCount field of the hand's  *)
(* analysis, which rankPokerHand sets to the accumulator modulo 15.        *)
(***************************************************************************)
\* Variant of CompareAnalyses: straights compared by btRanks alone.
CompareAnalysesNoWheel(a, b) ==
  IF a.handRank # b.handRank THEN a.handRank - b.handRank
  ELSE IF a.handRank = HandRank.royalFlush THEN 0
  ELSE IF a.handRank \in {HandRank.flush, HandRank.highCard,
                          HandRank.straightFlush, HandRank.straight}
    THEN a.btRanks - b.btRanks
  ELSE analysisToInt(a.handRank, ToValue(a.btCount))
       - analysisToInt(b.handRank, ToValue(b.btCount))

CompareAnalyses(a, b) ==
  IF a.handRank # b.handRank THEN a.handRank - b.handRank
  ELSE IF a.handRank = HandRank.royalFlush THEN 0
  ELSE IF a.handRank = HandRank.flush \/ a.handRank = HandRank.highCard
    THEN a.btRanks - b.btRanks
  ELSE IF a.handRank = HandRank.straightFlush \/ a.handRank = HandRank.straight
    THEN IF a.btRanks = WHEEL_HASH /\ b.btRanks = WHEEL_HASH THEN 0
         ELSE IF a.btRanks = WHEEL_HASH THEN -1
         ELSE IF b.btRanks = WHEEL_HASH THEN 1
         ELSE a.btRanks - b.btRanks
  ELSE analysisToInt(a.handRank, ToValue(a.btCount))
       - analysisToInt(b.handRank, ToValue(b.btCount))

compareHands(notationA, notationB) ==
  LET parsedA == ParseHandFromString(notationA)
      parsedB == ParseHandFromString(notationB)
  IN CompareAnalyses(rankPokerHand(parsedA[1], parsedA[2]),
                     rankPokerHand(parsedB[1], parsedB[2]))

(***************************************************************************)
(* btCountToAnalysis: sorts the caller's array in place (descending), then *)
(* files each run of equal ranks under its length.                         *)
(***************************************************************************)
RECURSIVE InsertDescending(_, _)
InsertDescending(sorted, x) ==
  IF sorted = <<>> THEN <<x>>
  ELSE IF x >= Head(sorted) THEN <<x>> \o sorted
  ELSE <<Head(sorted)>> \o InsertDescending(Tail(sorted), x)

RECURSIVE SortDescending(_)
SortDescending(handRanks) ==
  IF handRanks = <<>> THEN <<>>
  ELSE InsertDescending(SortDescending(Tail(handRanks)), Head(handRanks))

Push(workspace, count, rank) ==
  [workspace EXCEPT ![PAIR_TYPES[count]] = Append(@, rank)]

RECURSIVE RunsLoop(_, _, _, _)
RunsLoop(rest, queueRank, queueCount, workspace) ==
  IF rest = <<>> THEN Push(workspace, queueCount, queueRank)
  ELSE IF queueRank = Head(rest)
  THEN RunsLoop(Tail(rest), queueRank, queueCount + 1, workspace)
  ELSE RunsLoop(Tail(rest), Head(rest), 1, Push(workspace, queueCount, queueRank))

btCountToAnalysis(handRanks) ==
  LET sorted == SortDescending(handRanks)
  IN [handRanks |-> sorted,
      workspace |-> RunsLoop(Tail(sorted), sorted[1], 1,
                             [quads |-> <<>>, trips |-> <<>>,
                              pairs |-> <<>>, kickers |-> <<>>])]

(***************************************************************************)
(* Inputs.                                                                 *)
(***************************************************************************)
\* How many of the card orders of Orders the rank arrays are tried in.
NumOrders == 2

\* How many of the hands of TestHands a hand is compared with.
NumOpponents == 12

Ranks == 2..14

SuitCodes == {1, 2, 4, 8}

Orders ==
  <<<<3, 1, 5, 2, 4>>, <<5, 4, 3, 2, 1>>, <<1, 2, 3, 4, 5>>,
    <<2, 5, 1, 4, 3>>, <<4, 3, 2, 5, 1>>>>

OrdersUsed == {Orders[i] : i \in 1..(IF NumOrders < 5 THEN NumOrders ELSE 5)}

\* Five ranks, highest first, no rank more than four times.
Descending ==
  {r \in [1..5 -> Ranks] :
     /\ \A i \in 1..4 : r[i] >= r[i + 1]
     /\ r[1] # r[5]}

Permute(r, order) == [i \in 1..5 |-> r[order[i]]]

RankArrays == {Permute(r, order) : r \in Descending, order \in OrdersUsed}

\* The hands of the repository's tests: royal, straightFlush, steelWheel,
\* quads, boat, flush, straight, wheel, trips, twoPair, onePair, highCard,
\* and the broadway straight.
TestHands ==
  <<<<<<"A", "s">>, <<"K", "s">>, <<"Q", "s">>, <<"J", "s">>, <<"T", "s">>>>,
    <<<<"4", "s">>, <<"5", "s">>, <<"7", "s">>, <<"6", "s">>, <<"3", "s">>>>,
    <<<<"A", "h">>, <<"3", "h">>, <<"5", "h">>, <<"4", "h">>, <<"2", "h">>>>,
    <<<<"J", "h">>, <<"J", "c">>, <<"J", "d">>, <<"J", "s">>, <<"2", "h">>>>,
    <<<<"8", "h">>, <<"8", "c">>, <<"8", "d">>, <<"9", "s">>, <<"9", "h">>>>,
    <<<<"A", "h">>, <<"K", "h">>, <<"9", "h">>, <<"3", "h">>, <<"2", "h">>>>,
    <<<<"4", "s">>, <<"5", "c">>, <<"7", "d">>, <<"6", "s">>, <<"3", "s">>>>,
    <<<<"2", "s">>, <<"A", "s">>, <<"4", "s">>, <<"3", "s">>, <<"5", "d">>>>,
    <<<<"T", "s">>, <<"T", "c">>, <<"T", "d">>, <<"4", "s">>, <<"A", "d">>>>,
    <<<<"8", "s">>, <<"8", "d">>, <<"J", "c">>, <<"9", "s">>, <<"9", "d">>>>,
    <<<<"6", "s">>, <<"6", "d">>, <<"A", "s">>, <<"K", "d">>, <<"J", "d">>>>,
    <<<<"K", "s">>, <<"J", "s">>, <<"9", "s">>, <<"7", "s">>, <<"6", "d">>>>,
    <<<<"A", "s">>, <<"K", "s">>, <<"Q", "s">>, <<"J", "s">>, <<"T", "d">>>>>>

Opponents ==
  {TestHands[i] : i \in 1..(IF NumOpponents < 13 THEN NumOpponents ELSE 13)}

AllSuitArrays == [1..5 -> SuitCodes]

\* One suit throughout, or the suits of a test hand.
FewSuitArrays ==
  {[i \in 1..5 |-> c] : c \in SuitCodes}
  \cup {ParseHandFromString(h)[2] : h \in Opponents}

RankChar(r) == CHOOSE c \in DOMAIN Rank : Rank[c] = r

Notation(r, suitChars) == [i \in 1..5 |-> <<RankChar(r[i]), suitChars[i]>>]

\* No card twice.
ValidHand(hand) == \A i, j \in 1..5 : i # j => hand[i] # hand[j]

\* Every multiset of ranks, in one suit and in mixed suits, where that is
\* a valid hand.
Hands ==
  {h \in {Notation(r, sc) : r \in Descending,
                            sc \in {<<"s", "s", "s", "s", "s">>,
                                    <<"s", "c", "h", "d", "s">>}} :
     ValidHand(h)}

HasDuplicates(hand) == \E i, j \in 1..5 : i # j /\ hand[i][1] = hand[j][1]

ArrayOps == {"countRanksBitwise", "countDuplicatesBitwise", "btCountToAnalysis"}

(***************************************************************************)
(* Calls on rank and suit arrays.                                          *)
(***************************************************************************)
InitArrays ==
  /\ pc = "call"
  /\ out = <<>>
  /\ handA = <<>>
  /\ handB = <<>>
  /\ \/ /\ op \in ArrayOps
        /\ ranks \in RankArrays
        /\ suits = <<>>
     \/ /\ op = "rankPokerHand"
        /\ \/ /\ ranks \in RankArrays
              /\ suits \in FewSuitArrays
           \/ /\ ranks \in {ParseHandFromString(h)[1] : h \in Opponents}
              /\ suits \in AllSuitArrays

CountRanksBitwise ==
  /\ pc = "call" /\ op = "countRanksBitwise"
  /\ out' = countRanksBitwise(ranks)
  /\ pc' = "returned"
  /\ UNCHANGED <<op, ranks, suits, handA, handB>>

CountDuplicatesBitwise ==
  /\ pc = "call" /\ op = "countDuplicatesBitwise"
  /\ out' = countDuplicatesBitwise(ranks)
  /\ pc' = "returned"
  /\ UNCHANGED <<op, ranks, suits, handA, handB>>

RankPokerHand ==
  /\ pc = "call" /\ op = "rankPokerHand"
  /\ out' = rankPokerHand(ranks, suits)
  /\ pc' = "returned"
  /\ UNCHANGED <<op, ranks, suits, handA, handB>>

BtCountToAnalysis ==
  /\ pc = "call" /\ op = "btCountToAnalysis"
  /\ out' = btCountToAnalysis(ranks).workspace
  /\ ranks' = btCountToAnalysis(ranks).handRanks
  /\ pc' = "returned"
  /\ UNCHANGED <<op, suits, handA, handB>>

NextArrays ==
  \/ CountRanksBitwise
  \/ CountDuplicatesBitwise
  \/ RankPokerHand
  \/ BtCountToAnalysis

SpecArrays == InitArrays /\ [][NextArrays]_vars

(***************************************************************************)
(* Calls on two hand notations.                                            *)
(***************************************************************************)
Init ==
  /\ pc = "call"
  /\ out = <<>>
  /\ ranks = <<>>
  /\ suits = <<>>
  /\ \E h \in Hands, o \in Opponents :
       /\ \/ handA = h /\ handB = o
          \/ handA = o /\ handB = h
       /\ \/ op = "compareHands"
          \/ op = "analysisToInt" /\ HasDuplicates(h) /\ HasDuplicates(o)

CompareHands ==
  /\ pc = "call" /\ op = "compareHands"
  /\ out' = compareHands(handA, handB)
  /\ pc' = "returned"
  /\ UNCHANGED <<op, ranks, suits, handA, handB>>

\* analysisToInt on the accumulator of a hand with duplicate ranks.
Analysis(hand) ==
  LET parsed == ParseHandFromString(hand)
      handRank == rankPokerHand(parsed[1], parsed[2]).handRank
      bitCount == countDuplicatesBitwise(parsed[1])
  IN AnalysisTrace(handRank, bitCount)

AnalysisToInt ==
  /\ pc = "call" /\ op = "analysisToInt"
  /\ out' = <<Analysis(handA), Analysis(handB)>>
  /\ pc' = "returned"
  /\ UNCHANGED <<op, ranks, suits, handA, handB>>

Next ==
  \/ CompareHands
  \/ AnalysisToInt

Spec == Init /\ [][Next]_vars

(***************************************************************************)
(* Poker, stated on the cards themselves: what the properties below        *)
(* compare the results of the calls with.                                  *)
(***************************************************************************)
Sign(x) == IF x > 0 THEN 1 ELSE IF x < 0 THEN -1 ELSE 0

RankSet(r) == {r[i] : i \in DOMAIN r}

CountOf(r, x) == Cardinality({i \in DOMAIN r : r[i] = x})

MaxCount(r) == Max({CountOf(r, x) : x \in RankSet(r)})

AllSameSuit(s) == \A i, j \in DOMAIN s : s[i] = s[j]

IsWheel(r) == RankSet(r) = {14, 2, 3, 4, 5}

IsRun(r) == \E top \in 6..14 : RankSet(r) = (top - 4)..top

ExpectedCategory(r, s) ==
  LET distinct == Cardinality(RankSet(r))
  IN CASE distinct = 4 -> HandRank.pair
       [] distinct = 3 -> IF MaxCount(r) = 3 THEN HandRank.trips ELSE HandRank.twoPair
       [] distinct = 2 -> IF MaxCount(r) = 4 THEN HandRank.quads ELSE HandRank.fullHouse
       [] distinct = 5 ->
            IF AllSameSuit(s) /\ RankSet(r) = 10..14 THEN HandRank.royalFlush
            ELSE IF AllSameSuit(s) /\ (IsRun(r) \/ IsWheel(r)) THEN HandRank.straightFlush
            ELSE IF AllSameSuit(s) THEN HandRank.flush
            ELSE IF IsRun(r) \/ IsWheel(r) THEN HandRank.straight
            ELSE HandRank.highCard

ExpectedSignature(r) ==
  LET distinct == Cardinality(RankSet(r))
  IN CASE distinct = 5 -> 5
       [] distinct = 4 -> 6
       [] distinct = 3 -> IF MaxCount(r) = 3 THEN 9 ELSE 7
       [] distinct = 2 -> IF MaxCount(r) = 4 THEN 1 ELSE 10

RECURSIVE DescendingSeq(_)
DescendingSeq(S) ==
  IF S = {} THEN <<>> ELSE <<Max(S)>> \o DescendingSeq(S \ {Max(S)})

\* The ranks that decide between hands of one category, most significant
\* first: by multiplicity, then by rank.
SignificantRanks(r) ==
  DescendingSeq({x \in RankSet(r) : CountOf(r, x) = 4})
  \o DescendingSeq({x \in RankSet(r) : CountOf(r, x) = 3})
  \o DescendingSeq({x \in RankSet(r) : CountOf(r, x) = 2})
  \o DescendingSeq({x \in RankSet(r) : CountOf(r, x) = 1})

RECURSIVE LexSign(_, _)
LexSign(a, b) ==
  IF a = <<>> \/ b = <<>> THEN Sign(Len(a) - Len(b))
  ELSE IF Head(a) # Head(b) THEN Sign(Head(a) - Head(b))
  ELSE LexSign(Tail(a), Tail(b))

StraightTop(r) == IF IsWheel(r) THEN 5 ELSE Max(RankSet(r))

RanksOf(hand) == ParseHandFromString(hand)[1]

CategoryOf(hand) ==
  LET parsed == ParseHandFromString(hand)
  IN ExpectedCategory(parsed[1], parsed[2])

DuplicateCategories ==
  {HandRank.pair, HandRank.twoPair, HandRank.trips, HandRank.fullHouse,
   HandRank.quads}

Returned(operation) == pc = "returned" /\ op = operation

(***************************************************************************)
(* Properties of the calls on arrays (SpecArrays).                         *)
(***************************************************************************)
SignatureCategory(signature) ==
  CASE signature = 6 -> HandRank.pair
    [] signature = 7 -> HandRank.twoPair
    [] signature = 9 -> HandRank.trips
    [] signature = 10 -> HandRank.fullHouse
    [] signature = 1 -> HandRank.quads

\* C4: for five ranks in 2..14, none more than four times, in any order,
\* countDuplicatesBitwise(ranks) mod 15 is 5 for five distinct ranks, 6 for a
\* pair, 7 for two pair, 9 for trips, 10 for a full house and 1 for quads;
\* and when it is not 5, rankPokerHand returns the category of that value,
\* whatever the suits.
C4_DuplicateSignature ==
  /\ Returned("countDuplicatesBitwise") => Mod15(out) = ExpectedSignature(ranks)
  /\ Returned("rankPokerHand") =>
       /\ out.btCount = ExpectedSignature(ranks)
       /\ ExpectedSignature(ranks) # 5 =>
            out.handRank = SignatureCategory(ExpectedSignature(ranks))

\* Quads in one suit throughout, kicker first: ranked four of a kind.
C4_Witness ==
  /\ Returned("rankPokerHand")
  /\ MaxCount(ranks) = 4
  /\ ranks[1] < ranks[2]
  /\ AllSameSuit(suits)
  /\ out.handRank = HandRank.quads
  /\ out.btCount = 1

\* C5: for five distinct ranks and one-hot suits, rankPokerHand returns royal
\* flush iff one suit and T..A; else straight flush iff one suit and a run or
\* A,2,3,4,5; else flush iff one suit; else straight iff a run or A,2,3,4,5;
\* else high card.
C5_NoDuplicateCategories ==
  Returned("rankPokerHand") /\ Cardinality(RankSet(ranks)) = 5 =>
    out.handRank =
      (IF AllSameSuit(suits) /\ RankSet(ranks) = 10..14 THEN HandRank.royalFlush
       ELSE IF AllSameSuit(suits) /\ (IsRun(ranks) \/ IsWheel(ranks))
         THEN HandRank.straightFlush
       ELSE IF AllSameSuit(suits) THEN HandRank.flush
       ELSE IF IsRun(ranks) \/ IsWheel(ranks) THEN HandRank.straight
       ELSE HandRank.highCard)

\* The steel wheel, not in rank order: ranked a straight flush.
C5_Witness ==
  /\ Returned("rankPokerHand")
  /\ IsWheel(ranks)
  /\ ranks[1] # 14
  /\ AllSameSuit(suits)
  /\ out.handRank = HandRank.straightFlush

\* C7: a call of an exported operation leaves the caller's rank and suit
\* arrays as they were.
C7_CallerArraysUnchanged == [][ranks' = ranks /\ suits' = suits]_vars

\* The accumulator after the first n cards.
AfterCards(n) == CountDuplicatesLoop(SubSeq(ranks, 1, n), 0, ZeroValue)

\* C8 as stated: the nibble of rank r holds the number of cards of rank r.
C8_NibbleIsCount ==
  Returned("countDuplicatesBitwise") =>
    \A r \in Nibbles : out[r] = CountOf(ranks, r)

\* C8 as amended: the nibble of rank r holds 2^k - 1 for k cards of rank r
\* (0, 1, 3, 7, 15), and the update for a card leaves the nibbles of all
\* other ranks unchanged.
C8_NibbleIsCountMask ==
  Returned("countDuplicatesBitwise") =>
    /\ \A r \in Nibbles : out[r] = 2^CountOf(ranks, r) - 1
    /\ out = AfterCards(5)
    /\ \A n \in 1..5 : \A r \in Nibbles \ {ranks[n]} :
         AfterCards(n)[r] = AfterCards(n - 1)[r]

\* A full house: 0111 at the trips' rank and 0011 at the pair's.
C8_Witness ==
  /\ Returned("countDuplicatesBitwise")
  /\ \E r, q \in Ranks :
       /\ CountOf(ranks, r) = 3 /\ out[r] = 7
       /\ CountOf(ranks, q) = 2 /\ out[q] = 3

\* Every accumulator is exact in a double (53 significant bits).
ExactInDouble ==
  Returned("countDuplicatesBitwise") =>
    \A n \in 0..5 : SignificantBits(AfterCards(n)) <= 53

(***************************************************************************)
(* Properties of the calls on two hands (Spec).                            *)
(***************************************************************************)
SameCategory(categories) ==
  LET category == CategoryOf(handA)
  IN category \in categories /\ category = CategoryOf(handB)

\* C1: two hands of one duplicate-bearing category compare as their lists of
\* significant ranks do (quads: quad, kicker; ...; pair: pair, kickers).
C1_DuplicateHandsByRanks ==
  Returned("compareHands") /\ SameCategory(DuplicateCategories) =>
    Sign(out) = LexSign(SignificantRanks(RanksOf(handA)),
                        SignificantRanks(RanksOf(handB)))

\* C2: when the categories of the two hands differ, the sign of compareHands
\* is the sign of the difference of the categories.
C2_CategoryDominance ==
  LET categoryA == CategoryOf(handA)
      categoryB == CategoryOf(handB)
  IN Returned("compareHands") /\ categoryA # categoryB =>
       Sign(out) = Sign(categoryA - categoryB)

\* A king-high hand without a pair loses to a pair of lower cards.
C2_Witness ==
  /\ Returned("compareHands")
  /\ CategoryOf(handA) = HandRank.highCard
  /\ CategoryOf(handB) = HandRank.pair
  /\ Max(RankSet(RanksOf(handA))) > Max(RankSet(RanksOf(handB)))
  /\ out < 0

\* C3: two straights, or two straight flushes, compare as their top cards do,
\* the wheel counting as five-high.
C3_StraightsByTopCard ==
  Returned("compareHands")
  /\ SameCategory({HandRank.straight, HandRank.straightFlush}) =>
    Sign(out) = Sign(StraightTop(RanksOf(handA)) - StraightTop(RanksOf(handB)))

\* The wheel against a higher straight: the wheel loses.
C3_Witness ==
  /\ Returned("compareHands")
  /\ SameCategory({HandRank.straight})
  /\ IsWheel(RanksOf(handA))
  /\ ~IsWheel(RanksOf(handB))
  /\ out < 0

\* C6: two flushes, or two high-card hands, compare as their ranks in
\* descending order do, and tie exactly when the rank sets are equal.
C6_FlushAndHighCard ==
  Returned("compareHands")
  /\ SameCategory({HandRank.flush, HandRank.highCard}) =>
    /\ Sign(out) = LexSign(SignificantRanks(RanksOf(handA)),
                           SignificantRanks(RanksOf(handB)))
    /\ out = 0 <=> RankSet(RanksOf(handA)) = RankSet(RanksOf(handB))

\* Two flushes with the same top card, decided by a lower card.
C6_Witness ==
  /\ Returned("compareHands")
  /\ SameCategory({HandRank.flush})
  /\ Max(RankSet(RanksOf(handA))) = Max(RankSet(RanksOf(handB)))
  /\ out > 0

\* C9: of two lists of the same length (2 to 4) with entries in 0..15, the
\* fold gives the larger count to the list that is larger at the first
\* difference, and equal counts only to equal lists.
C9_FoldIsLexicographic ==
  (/\ Returned("analysisToInt")
   /\ Len(out[1].analysis) = Len(out[2].analysis)
   /\ Len(out[1].analysis) \in 2..4
   /\ \A i \in 1..Len(out[1].analysis) :
        out[1].analysis[i] \in 0..15 /\ out[2].analysis[i] \in 0..15)
  => (Sign(out[1].count - out[2].count)
        = LexSign(out[1].analysis, out[2].analysis))

\* C10: the extractor of the hand's category, given the accumulator, returns
\* the significant ranks themselves, every slot filled, in order.
C10_ExtractorLists ==
  Returned("analysisToInt") =>
    /\ out[1].analysis = SignificantRanks(RanksOf(handA))
    /\ out[2].analysis = SignificantRanks(RanksOf(handB))

====
